---- MODULE Spec2Model ----
(***************************************************************************)
(* Shopify webhook endpoint (src/pages/api/webhook/shopify.js): the        *)
(* reconciliation of storefront order events into Bitrix CRM deals.        *)
(*                                                                         *)
(* The CRM is the sequence `deals` (a deal's ID is its index).  Each       *)
(* inbound request is handled in a slot; a handler advances one remote     *)
(* call at a time, and every remote call chooses its outcome when it is    *)
(* issued.  calls[r] is the log of the remote calls issued for the event   *)
(* in slot r, resp[r] the responses written for it.                        *)
(***************************************************************************)
EXTENDS Integers, Sequences, FiniteSets, TLC

\* ---------------------------------------------------------------- bounds
MaxEvents == 2     \* inbound requests received in one behaviour
MaxAmount == 2     \* largest monetary amount
MaxItems  == 1     \* largest number of line items of an order
MaxQty    == 1     \* largest quantity of a line item
MaxTags   == 2     \* most tags of an order routed on its own

\* ------------------------------------------------------ program constants
CATEGORY_STOCK    == 2
CATEGORY_PREORDER == 8

Slots    == {1, 2}
OrderIds == {1}
Absent   == -1     \* an undefined (missing) numeric property
NoDeal   == 0      \* no deal id
Amounts  == 0 .. MaxAmount
OptAmounts == {Absent} \cup Amounts
FinancialStatuses == {"paid", "refunded"}
UNPAID == "58"
PAID   == "56"
Topics == {"orders/create", "orders/updated", "refunds/create", "other", "missing"}

\* ------------------------------------------------------------ text values
\* A string is a sequence of one-character strings.
UpperChars == <<"A","B","C","D","E","F","G","H","I","J","K","L","M",
                "N","O","P","Q","R","S","T","U","V","W","X","Y","Z">>
LowerChars == <<"a","b","c","d","e","f","g","h","i","j","k","l","m",
                "n","o","p","q","r","s","t","u","v","w","x","y","z">>

LowerChar(c) ==
    IF \E i \in DOMAIN UpperChars : UpperChars[i] = c
    THEN LowerChars[CHOOSE i \in DOMAIN UpperChars : UpperChars[i] = c]
    ELSE c

toLowerCaseAsIs(s) == s

toLowerCase(s) == [i \in 1 .. Len(s) |-> LowerChar(s[i])]

RECURSIVE trimLeft(_)
trimLeft(s) == IF s # <<>> /\ Head(s) = " " THEN trimLeft(Tail(s)) ELSE s

RECURSIVE trimRight(_)
trimRight(s) ==
    IF s # <<>> /\ s[Len(s)] = " " THEN trimRight(SubSeq(s, 1, Len(s) - 1)) ELSE s

trim(s) == trimRight(trimLeft(s))

\* s.split(','): the pieces between the commas; one (empty) piece for "".
RECURSIVE splitFrom(_, _)
splitFrom(s, cur) ==
    IF s = <<>> THEN <<cur>>
    ELSE IF Head(s) = "," THEN <<cur>> \o splitFrom(Tail(s), <<>>)
    ELSE splitFrom(Tail(s), Append(cur, Head(s)))

split(s) == splitFrom(s, <<>>)

PreOrderTag == <<"p","r","e","-","o","r","d","e","r">>
PreorderProductAddedTag ==
    <<"p","r","e","o","r","d","e","r","-","p","r","o","d","u","c","t","-","a","d","d","e","d">>
preorderTags == <<PreOrderTag, PreorderProductAddedTag>>

\* order.tags: a list of strings, one string, or missing.
TagsList(l)   == [kind |-> "list", val |-> l]
TagsString(s) == [kind |-> "string", val |-> s]
TagsAbsent    == [kind |-> "absent", val |-> <<>>]

orderTagsOf(tags) ==
    IF tags.kind = "list" THEN tags.val
    ELSE IF tags.kind = "string" /\ tags.val # <<>>
         THEN [i \in 1 .. Len(split(tags.val)) |-> trim(split(tags.val)[i])]
         ELSE <<>>

hasPreorderTag(tags) ==
    \E i \in DOMAIN orderTagsOf(tags) : \E j \in DOMAIN preorderTags :
        toLowerCase(orderTagsOf(tags)[i]) = toLowerCase(preorderTags[j])

categoryIdFor(tags) ==
    IF hasPreorderTag(tags) THEN CATEGORY_PREORDER ELSE CATEGORY_STOCK

\* ------------------------------------------------------------ field sets
NoFields == << >>

Merge(f, g) ==
    [k \in DOMAIN f \cup DOMAIN g |-> IF k \in DOMAIN g THEN g[k] ELSE f[k]]

Has(f, k) == k \in DOMAIN f

\* x || y on amounts as the storefront sends them (decimal strings: a present
\* amount is truthy, a missing one is not).
Truthy(x) == x # Absent

OrRight(x, y) == IF Truthy(y) THEN y ELSE x

Or(x, y) == IF Truthy(x) THEN x ELSE y

\* Number(x) of a present amount or of the literal 0.
Number(x) == IF x = Absent THEN 0 ELSE x

\* ---------------------------------------------------------- status policy
StageStep == [pending |-> "NEW", paid |-> "WON", refunded |-> "LOSE"]

financialStatusToStageId(status, categoryId) ==
    [cat |-> categoryId, step |-> StageStep[status]]

financialStatusToPaymentStatus(status) ==
    IF status = "paid" THEN PAID ELSE UNPAID

\* ------------------------------------------------------------ field mapper
\* A line item is its quantity; row i refers to line item i.
ProductRowsFrom(items, i) ==
    [PRODUCT |-> i, QUANTITY |-> items[i]]

RECURSIVE rowsOf(_, _)
rowsOf(items, i) ==
    IF i > Len(items) THEN <<>>
    ELSE IF items[i] > 0
         THEN <<ProductRowsFrom(items, i)>> \o rowsOf(items, i + 1)
         ELSE rowsOf(items, i + 1)

shippingOf(order) ==
    Number(Or(order.current_total_shipping_price_set,
           Or(order.total_shipping_price_set,
           Or(order.shipping_price, Or(order.shipping_line_price, 0)))))

mapShopifyOrderToBitrixDeal(order) ==
    LET categoryId == categoryIdFor(order.tags) IN
    [dealFields |->
        [UF_SHOPIFY_ORDER_ID |-> order.id,
         OPPORTUNITY |-> Number(Or(order.current_total_price, Or(order.total_price, 0))),
         CATEGORY_ID |-> categoryId,
         STAGE_ID |-> financialStatusToStageId(order.financial_status, categoryId),
         UF_CRM_1739183959976 |-> financialStatusToPaymentStatus(order.financial_status),
         UF_SHOPIFY_TOTAL_DISCOUNT |-> Number(order.current_total_discounts),
         UF_SHOPIFY_TOTAL_TAX |-> Number(order.current_total_tax),
         UF_SHOPIFY_SHIPPING_PRICE |-> shippingOf(order)],
     productRows |-> rowsOf(order.line_items, 1)]

\* ----------------------------------------------------------------- inputs
RECURSIVE SeqsUpTo(_, _)
SeqsUpTo(S, n) ==
    IF n = 0 THEN {<<>>}
    ELSE SeqsUpTo(S, n - 1) \cup
         {Append(s, x) : s \in {t \in SeqsUpTo(S, n - 1) : Len(t) = n - 1}, x \in S}

LineItems == SeqsUpTo(0 .. MaxQty, MaxItems)

TagValues == {TagsList(<<>>), TagsList(<<PreOrderTag>>)}

\* An order as delivered by the storefront: the gross total is always there,
\* the current total is missing or at most the gross total.
Orders ==
    {o \in [id : OrderIds,
            total_price : OptAmounts,
            current_total_price : OptAmounts,
            financial_status : FinancialStatuses,
            tags : TagValues,
            line_items : LineItems,
            current_total_discounts : {Absent},
            current_total_tax : {Absent},
            shipping_line_price : {Absent},
            current_total_shipping_price_set : {Absent},
            total_shipping_price_set : {Absent},
            shipping_price : {Absent}] :
        o.current_total_price <= o.total_price}

Refunds == [order_id : OrderIds, amount : OptAmounts]

\* The body of an event: an order for the order topics, a refund for the
\* refund topic; a topic the handler does not know is taken with a refund body.
BodiesOf(topic) ==
    IF topic \in {"orders/create", "orders/updated"} THEN Orders ELSE Refunds


\* ------------------------------------------------------------------ state
VARIABLES
    deals,     \* the CRM: the sequence of deals, [f: fields, rows: product rows]
    pc,        \* pc[r]: where the handler of slot r stands
    ev,        \* ev[r]: the request in slot r: method, topic, body, stored
    loc,       \* loc[r]: the handler's locals: dealId, currentCategoryId, fields, productRows
    calls,     \* calls[r]: the remote calls issued for the request in slot r, in order
    resp,      \* resp[r]: the status codes written to the response of slot r
    nEvents,   \* requests received so far
    probe      \* the input and the result of a function evaluated on its own

vars == <<deals, pc, ev, loc, calls, resp, nEvents, probe>>

NoLocals ==
    [dealId |-> NoDeal, cat |-> CATEGORY_STOCK, fields |-> NoFields, rows |-> <<>>,
     orderTotal |-> Absent]
NoEvent  == [method |-> "POST", topic |-> "missing",
             body |-> [order_id |-> 1, amount |-> Absent], stored |-> FALSE]

Call(op, id, fields, rows, out) ==
    [op |-> op, id |-> id, fields |-> fields, rows |-> rows, out |-> out]

\* ---------------------------------------------------------- the remote CRM
\* crm.deal.add: the new deal gets the next identifier and no product rows.
dealAdd(ds, fields) == Append(ds, [f |-> fields, rows |-> <<>>])

\* crm.deal.list filtered by the join key: the identifiers of the matches.
dealList(ds, orderId) ==
    {i \in DOMAIN ds : ds[i].f.UF_SHOPIFY_ORDER_ID = orderId}

\* listResp.result?.[0]: the first match, or none.
firstDeal(ds, orderId) ==
    IF dealList(ds, orderId) = {} THEN NoDeal
    ELSE CHOOSE i \in dealList(ds, orderId) : \A j \in dealList(ds, orderId) : i <= j

\* crm.deal.update: the named fields are overwritten, the others kept.
dealUpdate(ds, id, fields) == [ds EXCEPT ![id].f = Merge(@, fields)]

\* crm.deal.productrows.set: the row set is replaced as a whole.
productRowsSet(ds, id, rows) == [ds EXCEPT ![id].rows = rows]

\* ------------------------------------------------------------- the handler
NoProbe == [phase |-> "none"]

\* No request has arrived yet: every slot is idle.
Idle ==
    /\ pc = [r \in Slots |-> "idle"]
    /\ ev = [r \in Slots |-> NoEvent]
    /\ loc = [r \in Slots |-> NoLocals]
    /\ calls = [r \in Slots |-> <<>>]
    /\ resp = [r \in Slots |-> <<>>]
    /\ nEvents = 0

Init ==
    /\ deals = <<>>
    /\ Idle
    /\ probe = NoProbe

RespondTwice(r, code) ==
    /\ resp' = [resp EXCEPT ![r] = Append(Append(@, code), code)]
    /\ pc' = [pc EXCEPT ![r] = "done"]

\* res.status(code): the response is written and the handler returns.
Respond(r, code) ==
    /\ resp' = [resp EXCEPT ![r] = Append(@, code)]
    /\ pc' = [pc EXCEPT ![r] = "done"]

Log(r, c) == calls' = [calls EXCEPT ![r] = Append(@, c)]

\* handler's two exits: the topic handler returned (200), or it threw (500).
Returned(r) == Respond(r, 200)
Threw(r)    == Respond(r, 500)

FirstStepFallThrough(topic) ==
    CASE topic = "orders/create"  -> "upsert"
      [] topic = "orders/updated" -> "upd_list"
      [] OTHER -> "ref_list"

FirstStep(topic) ==
    CASE topic = "orders/create"  -> "upsert"
      [] topic = "orders/updated" -> "upd_list"
      [] topic = "refunds/create" -> "ref_list"
      [] OTHER -> "done"

\* A request whose method is not POST is answered 405 before anything else.
RejectMethod(r, method) ==
    /\ pc[r] \in {"idle", "done"}
    /\ nEvents < MaxEvents
    /\ method # "POST"
    /\ nEvents' = nEvents + 1
    /\ ev' = [ev EXCEPT ![r] = [NoEvent EXCEPT !.method = method]]
    /\ calls' = [calls EXCEPT ![r] = <<>>]
    /\ loc' = [loc EXCEPT ![r] = NoLocals]
    /\ resp' = [resp EXCEPT ![r] = <<405>>]
    /\ pc' = [pc EXCEPT ![r] = "done"]
    /\ UNCHANGED <<deals, probe>>

\* handler up to its first remote call: the monitoring record (its failure is
\* caught), the dispatch on the topic; handleOrderCreated maps the order before
\* its first call.
Receive(r, topic, body, stored) ==
    /\ pc[r] \in {"idle", "done"}
    /\ nEvents < MaxEvents
    /\ nEvents' = nEvents + 1
    /\ ev' = [ev EXCEPT ![r] =
                [method |-> "POST", topic |-> topic, body |-> body, stored |-> stored]]
    /\ calls' = [calls EXCEPT ![r] = <<>>]
    /\ loc' = [loc EXCEPT ![r] =
                IF topic = "orders/create"
                THEN LET mapped == mapShopifyOrderToBitrixDeal(body)
                     IN  [NoLocals EXCEPT !.fields = mapped.dealFields,
                                          !.rows = mapped.productRows]
                ELSE NoLocals]
    /\ IF FirstStep(topic) = "done"
       THEN /\ resp' = [resp EXCEPT ![r] = <<200>>]
            /\ pc' = [pc EXCEPT ![r] = "done"]
       ELSE /\ resp' = [resp EXCEPT ![r] = <<>>]
            /\ pc' = [pc EXCEPT ![r] = FirstStep(topic)]
    /\ UNCHANGED <<deals, probe>>

\* ---- handleOrderCreated
ContactIds == {"contact-1"}

\* if (contactId) dealFields.CONTACT_ID = contactId; a failed upsert is caught
\* and leaves the fields as they were mapped.
withContactAlways(fields, out) == Merge(fields, [CONTACT_ID |-> out])

withContact(fields, out) ==
    IF out \in ContactIds THEN Merge(fields, [CONTACT_ID |-> out]) ELSE fields

ContactUpsert(r, out) ==
    /\ pc[r] = "upsert"
    /\ Log(r, Call("contact.upsert", NoDeal, NoFields, <<>>, out))
    /\ loc' = [loc EXCEPT ![r].fields = withContact(@, out)]
    /\ pc' = [pc EXCEPT ![r] = "create"]
    /\ UNCHANGED <<deals, ev, resp, nEvents, probe>>

\* A create call that throws, or returns without a result identifier, ends
\* handleOrderCreated with an error: nothing catches it before handler does.
onDealAddFailedSwallow(r) == Returned(r)

onDealAddFailed(r) == Threw(r)

rowsAlways(productRows) == TRUE

hasProductRows(productRows) == Len(productRows) > 0

CreateDeal(r, out) ==
    /\ pc[r] = "create"
    /\ Log(r, Call("crm.deal.add", NoDeal, loc[r].fields, <<>>, out))
    /\ IF out = "ok"
       THEN /\ deals' = dealAdd(deals, loc[r].fields)
            /\ loc' = [loc EXCEPT ![r].dealId = Len(deals) + 1]
            /\ IF hasProductRows(loc[r].rows)
               THEN pc' = [pc EXCEPT ![r] = "create_rows"] /\ UNCHANGED resp
               ELSE Returned(r)
       ELSE /\ onDealAddFailed(r)
            /\ UNCHANGED <<deals, loc>>
    /\ UNCHANGED <<ev, nEvents, probe>>

\* The row call of the create path is inside a try block: its failure is
\* logged and handleOrderCreated returns the deal id all the same.
onCreateRowsErrorThrow(r) == Threw(r)

onCreateRowsErrorRetry(r) == UNCHANGED <<pc, resp>>

onCreateRowsError(r) == Returned(r)

CreateSetRows(r, out) ==
    /\ pc[r] = "create_rows"
    /\ Log(r, Call("crm.deal.productrows.set", loc[r].dealId, NoFields, loc[r].rows, out))
    /\ deals' = IF out = "ok" THEN productRowsSet(deals, loc[r].dealId, loc[r].rows)
                ELSE deals
    /\ IF out = "ok" THEN Returned(r) ELSE onCreateRowsError(r)
    /\ UNCHANGED <<ev, loc, nEvents, probe>>

\* ---- handleOrderUpdated
\* Number(deal.CATEGORY_ID) || 2
currentCategoryIdStock(deal) == CATEGORY_STOCK

currentCategoryIdOf(deal) == IF deal.CATEGORY_ID = 0 THEN 2 ELSE deal.CATEGORY_ID

\* The update fields: category, amount and stage when they differ from the
\* deal, the payment status always, the monetary custom fields when the order
\* carries their source.
updateFields(order, deal) ==
    LET categoryId == categoryIdFor(order.tags)
        newAmount  == Number(Or(order.current_total_price, Or(order.total_price, 0)))
        stageId    == financialStatusToStageId(order.financial_status, categoryId)
        f1 == IF categoryId # currentCategoryIdOf(deal)
              THEN [CATEGORY_ID |-> categoryId] ELSE NoFields
        f2 == IF newAmount # deal.OPPORTUNITY
              THEN [OPPORTUNITY |-> newAmount] ELSE NoFields
        f3 == IF stageId # deal.STAGE_ID THEN [STAGE_ID |-> stageId] ELSE NoFields
        f4 == [UF_CRM_1739183959976 |->
                   financialStatusToPaymentStatus(order.financial_status)]
        f5 == IF order.current_total_discounts # Absent
              THEN [UF_SHOPIFY_TOTAL_DISCOUNT |-> Number(order.current_total_discounts)]
              ELSE NoFields
        f6 == IF order.current_total_tax # Absent
              THEN [UF_SHOPIFY_TOTAL_TAX |-> Number(order.current_total_tax)]
              ELSE NoFields
        f7 == IF order.shipping_line_price # Absent
              THEN [UF_SHOPIFY_SHIPPING_PRICE |-> shippingOf(order)] ELSE NoFields
    IN  Merge(f1, Merge(f2, Merge(f3, Merge(f4, Merge(f5, Merge(f6, f7))))))

\* `if (!deal) return`: an order not yet synced is no error.
onDealNotFoundThrow(r) == Threw(r)

onDealNotFound(r) == Returned(r)

UpdListDeals(r, out) ==
    /\ pc[r] = "upd_list"
    /\ Log(r, Call("crm.deal.list", ev[r].body.id, NoFields, <<>>, out))
    /\ LET dealId == IF out = "ok" THEN firstDeal(deals, ev[r].body.id) ELSE NoDeal
       IN  IF out = "throw"
           THEN Threw(r) /\ UNCHANGED loc
           ELSE IF dealId = NoDeal
           THEN onDealNotFound(r) /\ UNCHANGED loc
           ELSE LET fields == updateFields(ev[r].body, deals[dealId].f)
                IN  /\ loc' = [loc EXCEPT ![r] =
                                [dealId |-> dealId,
                                 cat |-> currentCategoryIdOf(deals[dealId].f),
                                 fields |-> fields,
                                 rows |-> <<>>,
                                 orderTotal |-> Absent]]
                    /\ pc' = [pc EXCEPT ![r] =
                                IF DOMAIN fields # {} THEN "upd_update" ELSE "upd_rows"]
                    /\ UNCHANGED resp
    /\ UNCHANGED <<deals, ev, nEvents, probe>>

UpdUpdateDeal(r, out) ==
    /\ pc[r] = "upd_update"
    /\ Log(r, Call("crm.deal.update", loc[r].dealId, loc[r].fields, <<>>, out))
    /\ IF out = "ok"
       THEN /\ deals' = dealUpdate(deals, loc[r].dealId, loc[r].fields)
            /\ pc' = [pc EXCEPT ![r] = "upd_rows"]
            /\ UNCHANGED resp
       ELSE /\ Threw(r)
            /\ UNCHANGED deals
    /\ UNCHANGED <<ev, loc, nEvents, probe>>

\* Both branches of the row resync issue the call: with the mapped rows, or
\* with the empty list when the order maps to none.
UpdSetRows(r, out) ==
    /\ pc[r] = "upd_rows"
    /\ LET productRows == mapShopifyOrderToBitrixDeal(ev[r].body).productRows
       IN  /\ Log(r, Call("crm.deal.productrows.set", loc[r].dealId, NoFields,
                          productRows, out))
           /\ deals' = IF out = "ok"
                       THEN productRowsSet(deals, loc[r].dealId, productRows)
                       ELSE deals
    /\ Returned(r)
    /\ UNCHANGED <<ev, loc, nEvents, probe>>

\* ---- handleRefundCreated
refundFieldsStrict(dealFields, refundAmount, orderTotal, currentCategoryId) ==
    LET fields == [OPPORTUNITY |-> dealFields.OPPORTUNITY,
                   UF_SHOPIFY_TOTAL_DISCOUNT |-> dealFields.UF_SHOPIFY_TOTAL_DISCOUNT,
                   UF_SHOPIFY_SHIPPING_PRICE |-> dealFields.UF_SHOPIFY_SHIPPING_PRICE,
                   UF_SHOPIFY_TOTAL_TAX |-> dealFields.UF_SHOPIFY_TOTAL_TAX]
        remainingAmount == orderTotal - refundAmount
    IN  IF remainingAmount < 0
        THEN Merge(fields,
                   [UF_CRM_1739183959976 |-> UNPAID,
                    STAGE_ID |-> financialStatusToStageId("refunded", currentCategoryId)])
        ELSE IF refundAmount > 0
        THEN Merge(fields, [UF_CRM_1739183959976 |-> UNPAID])
        ELSE fields

refundFields(dealFields, refundAmount, orderTotal, currentCategoryId) ==
    LET fields == [OPPORTUNITY |-> dealFields.OPPORTUNITY,
                   UF_SHOPIFY_TOTAL_DISCOUNT |-> dealFields.UF_SHOPIFY_TOTAL_DISCOUNT,
                   UF_SHOPIFY_SHIPPING_PRICE |-> dealFields.UF_SHOPIFY_SHIPPING_PRICE,
                   UF_SHOPIFY_TOTAL_TAX |-> dealFields.UF_SHOPIFY_TOTAL_TAX]
        remainingAmount == orderTotal - refundAmount
    IN  IF remainingAmount <= 0
        THEN Merge(fields,
                   [UF_CRM_1739183959976 |-> UNPAID,
                    STAGE_ID |-> financialStatusToStageId("refunded", currentCategoryId)])
        ELSE IF refundAmount > 0
        THEN Merge(fields, [UF_CRM_1739183959976 |-> UNPAID])
        ELSE fields

\* The catch block of handleRefundCreated logs the error and does not rethrow;
\* `return` inside the try block (no order fetched) ends the handler as well.
onRefundErrorRethrow(r) == Threw(r)

onRefundError(r) == Returned(r)

RefListDeals(r, out) ==
    /\ pc[r] = "ref_list"
    /\ Log(r, Call("crm.deal.list", ev[r].body.order_id, NoFields, <<>>, out))
    /\ LET dealId == IF out = "ok" THEN firstDeal(deals, ev[r].body.order_id) ELSE NoDeal
       IN  IF out = "throw"
           THEN Threw(r) /\ UNCHANGED loc
           ELSE IF dealId = NoDeal
           THEN onDealNotFound(r) /\ UNCHANGED loc
           ELSE /\ loc' = [loc EXCEPT ![r] =
                            [dealId |-> dealId,
                             cat |-> currentCategoryIdOf(deals[dealId].f),
                             fields |-> NoFields,
                             rows |-> <<>>,
                             orderTotal |-> Absent]]
                /\ pc' = [pc EXCEPT ![r] = "ref_fetch"]
                /\ UNCHANGED resp
    /\ UNCHANGED <<deals, ev, nEvents, probe>>

\* getOrder: the storefront's current snapshot of the order, nothing, or a
\* failure; the last two end the handler inside its try block.
orderFetchedUnchecked(out) == out # "throw"

\* if (!shopifyOrder) return
orderFetched(out) == out = "ok"

RefGetOrder(r, out, shopifyOrder) ==
    /\ pc[r] = "ref_fetch"
    /\ shopifyOrder.id = ev[r].body.order_id
    /\ Log(r, Call("shopify.getOrder", ev[r].body.order_id, NoFields, <<>>, out))
    /\ IF orderFetched(out)
       THEN /\ LET mapped == mapShopifyOrderToBitrixDeal(shopifyOrder)
               IN  loc' = [loc EXCEPT
                     ![r].fields = refundFields(mapped.dealFields,
                                                Number(ev[r].body.amount),
                                                Number(shopifyOrder.total_price),
                                                loc[r].cat),
                     ![r].rows = mapped.productRows,
                     ![r].orderTotal = Number(shopifyOrder.total_price)]
            /\ pc' = [pc EXCEPT ![r] = "ref_update"]
            /\ UNCHANGED resp
       ELSE /\ IF out = "throw" THEN onRefundError(r) ELSE Returned(r)
            /\ UNCHANGED loc
    /\ UNCHANGED <<deals, ev, nEvents, probe>>

RefUpdateDeal(r, out) ==
    /\ pc[r] = "ref_update"
    /\ Log(r, Call("crm.deal.update", loc[r].dealId, loc[r].fields, <<>>, out))
    /\ IF out = "ok"
       THEN /\ deals' = dealUpdate(deals, loc[r].dealId, loc[r].fields)
            /\ IF Len(loc[r].rows) > 0
               THEN pc' = [pc EXCEPT ![r] = "ref_rows"] /\ UNCHANGED resp
               ELSE Returned(r)
       ELSE /\ onRefundError(r)
            /\ UNCHANGED deals
    /\ UNCHANGED <<ev, loc, nEvents, probe>>

RefSetRows(r, out) ==
    /\ pc[r] = "ref_rows"
    /\ Log(r, Call("crm.deal.productrows.set", loc[r].dealId, NoFields, loc[r].rows, out))
    /\ deals' = IF out = "ok" THEN productRowsSet(deals, loc[r].dealId, loc[r].rows)
                ELSE deals
    /\ IF out = "ok" THEN Returned(r) ELSE onRefundError(r)
    /\ UNCHANGED <<ev, loc, nEvents, probe>>

\* ---------------------------------------------------------- specification
Methods      == {"POST", "GET"}
CallOutcomes == {"ok", "throw"}
ReadOutcomes == {"ok", "noresult", "throw"}

\* One request at a time: every request is handled in slot 1.
Sequential == {1}

Next ==
    \E r \in Sequential :
        \/ \E method \in Methods : RejectMethod(r, method)
        \/ \E topic \in Topics, stored \in BOOLEAN :
              \E body \in BodiesOf(topic) : Receive(r, topic, body, stored)
        \/ \E out \in ContactIds \cup {"none", "throw"} : ContactUpsert(r, out)
        \/ \E out \in ReadOutcomes : CreateDeal(r, out)
        \/ \E out \in CallOutcomes : CreateSetRows(r, out)
        \/ \E out \in ReadOutcomes : UpdListDeals(r, out)
        \/ \E out \in CallOutcomes : UpdUpdateDeal(r, out)
        \/ \E out \in CallOutcomes : UpdSetRows(r, out)
        \/ \E out \in ReadOutcomes : RefListDeals(r, out)
        \/ \E out \in {"ok", "nothing", "throw"}, o \in Orders : RefGetOrder(r, out, o)
        \/ \E out \in CallOutcomes : RefUpdateDeal(r, out)
        \/ \E out \in CallOutcomes : RefSetRows(r, out)

Spec == Init /\ [][Next]_vars

\* ---------------------------------------------- specification: progress
\* The same handler on a small choice of bodies, with the assumption that an
\* awaited remote call returns or fails, so that a waiting handler resumes.
LiveOrders ==
    {o \in Orders : /\ o.total_price = 1 /\ o.current_total_price = Absent
                    /\ o.financial_status = "paid" /\ o.tags = TagsList(<<>>)
                    /\ o.line_items \in {<<>>, <<1>>}}

LiveBodies(topic) ==
    IF topic \in {"orders/create", "orders/updated"} THEN LiveOrders
    ELSE {b \in Refunds : b.amount = 1}

\* The handler of slot r resumes after an awaited remote call, whatever the
\* call gave.
Proceed(r) ==
    \/ \E out \in ContactIds \cup {"none", "throw"} : ContactUpsert(r, out)
    \/ \E out \in ReadOutcomes : CreateDeal(r, out)
    \/ \E out \in CallOutcomes : CreateSetRows(r, out)
    \/ \E out \in ReadOutcomes : UpdListDeals(r, out)
    \/ \E out \in CallOutcomes : UpdUpdateDeal(r, out)
    \/ \E out \in CallOutcomes : UpdSetRows(r, out)
    \/ \E out \in ReadOutcomes : RefListDeals(r, out)
    \/ \E out \in {"ok", "nothing", "throw"}, o \in LiveOrders : RefGetOrder(r, out, o)
    \/ \E out \in CallOutcomes : RefUpdateDeal(r, out)
    \/ \E out \in CallOutcomes : RefSetRows(r, out)

LiveNext ==
    \E r \in Sequential :
        \/ \E method \in Methods : RejectMethod(r, method)
        \/ \E topic \in Topics, stored \in BOOLEAN :
              \E body \in LiveBodies(topic) : Receive(r, topic, body, stored)
        \/ \E out \in ContactIds \cup {"none", "throw"} : ContactUpsert(r, out)
        \/ \E out \in ReadOutcomes : CreateDeal(r, out)
        \/ \E out \in CallOutcomes : CreateSetRows(r, out)
        \/ \E out \in ReadOutcomes : UpdListDeals(r, out)
        \/ \E out \in CallOutcomes : UpdUpdateDeal(r, out)
        \/ \E out \in CallOutcomes : UpdSetRows(r, out)
        \/ \E out \in ReadOutcomes : RefListDeals(r, out)
        \/ \E out \in {"ok", "nothing", "throw"}, o \in LiveOrders : RefGetOrder(r, out, o)
        \/ \E out \in CallOutcomes : RefUpdateDeal(r, out)
        \/ \E out \in CallOutcomes : RefSetRows(r, out)

LiveSpec ==
    Init /\ [][LiveNext]_vars /\ \A r \in Sequential : WF_vars(Proceed(r))

\* ------------------------------------- specification: category routing
\* The routing of handleOrderUpdated evaluated on its own, on tags in either
\* of the two forms the payload may carry.
UpperChar(c) ==
    IF \E i \in DOMAIN LowerChars : LowerChars[i] = c
    THEN UpperChars[CHOOSE i \in DOMAIN LowerChars : LowerChars[i] = c]
    ELSE c

toUpperCase(s) == [i \in 1 .. Len(s) |-> UpperChar(s[i])]

\* Pre-Order for pre-order: the first letter, and each letter after a hyphen.
Capitalized(s) ==
    [i \in 1 .. Len(s) |-> IF i = 1 \/ s[i - 1] = "-" THEN UpperChar(s[i]) ELSE s[i]]

CaseVariants(s) == {s, toUpperCase(s), Capitalized(s)}

TagPool ==
    CaseVariants(PreOrderTag) \cup CaseVariants(PreorderProductAddedTag)
    \cup {<<"v","i","p">>,
          <<"p","r","e","o","r","d","e","r">>,
          <<"p","r","e"," ","o","r","d","e","r">>}

Separators == {<<",">>, <<",", " ">>}

\* The tags as one delimited string.
RECURSIVE join(_, _)
join(l, sep) ==
    IF l = <<>> THEN <<>>
    ELSE IF Len(l) = 1 THEN l[1]
    ELSE l[1] \o sep \o join(Tail(l), sep)

TagsIn(l, sep, form) ==
    IF form = "list" THEN TagsList(l) ELSE TagsString(join(l, sep))

RoutingInit ==
    /\ deals = <<>>
    /\ Idle
    /\ \E l \in SeqsUpTo(TagPool, MaxTags), sep \in Separators :
          probe = [phase |-> "tags", tags |-> l, sep |-> sep,
                   form |-> "none", category |-> 0]

Route(form) ==
    /\ probe.phase = "tags"
    /\ probe' = [probe EXCEPT !.phase = "routed", !.form = form,
                    !.category = categoryIdFor(TagsIn(probe.tags, probe.sep, form))]
    /\ UNCHANGED <<deals, pc, ev, loc, calls, resp, nEvents>>

RoutingNext == \E form \in {"list", "string"} : Route(form)

RoutingSpec == RoutingInit /\ [][RoutingNext]_vars

\* --------------------------------------------- specification: the diff
\* The update fields of handleOrderUpdated evaluated on their own, on orders
\* that carry any choice of the monetary sources, against the deal mapped from
\* an order without any.
MoneyOrders ==
    [id : OrderIds,
     total_price : {1},
     current_total_price : {Absent},
     financial_status : {"paid"},
     tags : {TagsList(<<>>)},
     line_items : {<<>>},
     current_total_discounts : OptAmounts,
     current_total_tax : OptAmounts,
     shipping_line_price : OptAmounts,
     current_total_shipping_price_set : OptAmounts,
     total_shipping_price_set : OptAmounts,
     shipping_price : {Absent}]

DiffInit ==
    /\ deals = <<>>
    /\ Idle
    /\ \E o \in MoneyOrders, d \in LiveOrders :
          probe = [phase |-> "order", order |-> o,
                   deal |-> mapShopifyOrderToBitrixDeal(d).dealFields,
                   fields |-> NoFields]

Diff ==
    /\ probe.phase = "order"
    /\ probe' = [probe EXCEPT !.phase = "diffed",
                    !.fields = updateFields(probe.order, probe.deal)]
    /\ UNCHANGED <<deals, pc, ev, loc, calls, resp, nEvents>>

DiffNext == Diff

DiffSpec == DiffInit /\ [][DiffNext]_vars

\* ------------------------------------- specification: concurrent updates
\* Two invocations of handler at once, each with an orders/updated event of
\* the order whose deal is in the CRM: their remote calls interleave in any
\* order, every step of one being a step between two awaits.
ConcOrders ==
    {o \in Orders : /\ o.line_items = <<>> /\ o.current_total_price = Absent
                    /\ o.total_price > 0}

ConcInit ==
    /\ \E o \in ConcOrders :
          deals = dealAdd(<<>>, mapShopifyOrderToBitrixDeal(o).dealFields)
    /\ Idle
    /\ probe = NoProbe

ConcNext ==
    \E r \in Slots :
        \/ \E body \in ConcOrders : Receive(r, "orders/updated", body, TRUE)
        \/ \E out \in ReadOutcomes : UpdListDeals(r, out)
        \/ \E out \in CallOutcomes : UpdUpdateDeal(r, out)
        \/ \E out \in CallOutcomes : UpdSetRows(r, out)

ConcSpec == ConcInit /\ [][ConcNext]_vars

\* ------------------------------------------------------------ properties
\* The request in slot r is a POST of the topic.
Posted(r, topic) == pc[r] # "idle" /\ ev[r].method = "POST" /\ ev[r].topic = topic

IsDone(r) == pc[r] = "done"

\* The positions of the calls of one operation in the log of slot r.
IdxOf(r, op) == {i \in DOMAIN calls[r] : calls[r][i].op = op}

Count(r, op) == Cardinality(IdxOf(r, op))

\* The lookup of slot r came back (it did not throw) and gave no deal.
LookupFoundNothing(r) ==
    /\ loc[r].dealId = NoDeal
    /\ \E i \in IdxOf(r, "crm.deal.list") : calls[r][i].out # "throw"

\* The lookup of slot r located a deal.
Located(r) == Count(r, "crm.deal.list") > 0 /\ loc[r].dealId # NoDeal

MappedRows(r) == mapShopifyOrderToBitrixDeal(ev[r].body).productRows

\* C1: an orders/create event whose create-deal call returns no result
\* identifier is answered with a failure, and no set-product-rows call is
\* issued for it.
C1_CreateWithoutResultFails ==
    \A r \in Slots :
        (/\ Posted(r, "orders/create")
         /\ \E i \in IdxOf(r, "crm.deal.add") : calls[r][i].out = "noresult")
        => /\ resp[r] = <<500>>
           /\ Count(r, "crm.deal.productrows.set") = 0

C1_Witness ==
    \E r \in Slots :
        /\ Posted(r, "orders/create") /\ IsDone(r)
        /\ MappedRows(r) # <<>>
        /\ \E i \in IdxOf(r, "crm.deal.add") : calls[r][i].out = "noresult"

\* C2: a POST event is answered with a non-success response only when deal
\* creation failed during an orders/create event.
C2_OnlyCreateFailureFails ==
    \A r \in Slots :
        (ev[r].method = "POST" /\ resp[r] # <<>> /\ resp[r] # <<200>>)
        => /\ ev[r].topic = "orders/create"
           /\ \E i \in IdxOf(r, "crm.deal.add") : calls[r][i].out # "ok"

\* C3: at most one deal carries a given external order id in its join key.
C3_OneDealPerOrderId ==
    \A id \in OrderIds : Cardinality(dealList(deals, id)) <= 1

\* C4: an orders/updated or refunds/create event whose lookup returns no deal
\* issues no update-deal call, no set-product-rows call and no order fetch,
\* and is answered with success.
C4_NotFoundIsNoOp ==
    \A r \in Slots :
        (/\ Posted(r, "orders/updated") \/ Posted(r, "refunds/create")
         /\ LookupFoundNothing(r))
        => /\ Count(r, "crm.deal.update") = 0
           /\ Count(r, "crm.deal.productrows.set") = 0
           /\ Count(r, "shopify.getOrder") = 0
           /\ Len(calls[r]) = 1
           /\ resp[r] = <<200>>

C4_Witness ==
    \E r \in Slots :
        /\ Posted(r, "refunds/create") /\ IsDone(r)
        /\ LookupFoundNothing(r)
        /\ calls[r][1].out = "ok"

\* C5: an orders/updated event whose located deal already has the target
\* category, amount and stage (none of the three is in the diff) issues no
\* update-deal call.
C5_NoUpdateWhenUnchanged ==
    \A r \in Slots :
        (/\ Posted(r, "orders/updated") /\ Located(r)
         /\ ~ Has(loc[r].fields, "CATEGORY_ID")
         /\ ~ Has(loc[r].fields, "OPPORTUNITY")
         /\ ~ Has(loc[r].fields, "STAGE_ID"))
        => Count(r, "crm.deal.update") = 0

\* C6: every orders/updated event whose deal is located ends with exactly one
\* set-product-rows call for that deal carrying the re-mapped row set,
\* whatever became of the update-deal call.
C6_RowsAlwaysResynced ==
    \A r \in Slots :
        (Posted(r, "orders/updated") /\ Located(r) /\ IsDone(r))
        => /\ Count(r, "crm.deal.productrows.set") = 1
           /\ \A j \in IdxOf(r, "crm.deal.productrows.set") :
                 calls[r][j].id = loc[r].dealId /\ calls[r][j].rows = MappedRows(r)

\* C7: an orders/create event issues exactly one create-deal call; when it
\* returns a deal id and the mapped rows are non-empty, exactly one
\* set-product-rows call follows, for the returned id with all mapped rows;
\* when the mapped rows are empty there is none; set-product-rows never
\* precedes create-deal.
C7_CreateThenRows ==
    \A r \in Slots :
        Posted(r, "orders/create")
        => /\ Count(r, "crm.deal.add") <= 1
           /\ IsDone(r) => Count(r, "crm.deal.add") = 1
           /\ Count(r, "crm.deal.productrows.set") <= 1
           /\ \A j \in IdxOf(r, "crm.deal.productrows.set") :
                 /\ calls[r][j].rows = MappedRows(r)
                 /\ calls[r][j].id \in DOMAIN deals
                 /\ \E i \in IdxOf(r, "crm.deal.add") :
                       /\ i < j
                       /\ calls[r][i].out = "ok"
                       /\ \A k \in DOMAIN calls[r][i].fields :
                             deals[calls[r][j].id].f[k] = calls[r][i].fields[k]
                       /\ calls[r][j].id = loc[r].dealId
           /\ (/\ IsDone(r)
               /\ MappedRows(r) # <<>>
               /\ \E i \in IdxOf(r, "crm.deal.add") : calls[r][i].out = "ok")
              => Count(r, "crm.deal.productrows.set") = 1
           /\ MappedRows(r) = <<>> => Count(r, "crm.deal.productrows.set") = 0

C7_Witness ==
    \E r \in Slots :
        /\ Posted(r, "orders/create") /\ IsDone(r)
        /\ Len(deals) > 1
        /\ Count(r, "crm.deal.productrows.set") = 1
        /\ Len(MappedRows(r)) = MaxItems

\* C8: a refunds/create event whose deal has been located is answered with
\* success, whatever the outcome of the order fetch, the update-deal call and
\* the set-product-rows call.
C8_LocatedRefundSucceeds ==
    \A r \in Slots :
        (Posted(r, "refunds/create") /\ Located(r))
        => /\ resp[r] \in {<<>>, <<200>>}
           /\ IsDone(r) => resp[r] = <<200>>

C8_Witness ==
    \E r \in Slots :
        /\ Posted(r, "refunds/create") /\ Located(r) /\ IsDone(r)
        /\ \E i \in IdxOf(r, "crm.deal.update") : calls[r][i].out = "throw"

\* C9: the update-deal fields of the refund path, with remaining = orderTotal
\* - refundAmount: remaining <= 0 gives the unpaid code and the refunded stage
\* of the deal's category; otherwise a positive refund gives the unpaid code
\* and no stage; otherwise neither is sent.
C9_RefundThreshold ==
    \A r \in Slots :
        Posted(r, "refunds/create")
        => \A i \in IdxOf(r, "crm.deal.update") :
              LET f == calls[r][i].fields
                  refundAmount == Number(ev[r].body.amount)
                  remaining == loc[r].orderTotal - refundAmount
                  category == deals[calls[r][i].id].f.CATEGORY_ID
              IN  IF remaining <= 0
                  THEN /\ Has(f, "UF_CRM_1739183959976")
                       /\ f.UF_CRM_1739183959976 = UNPAID
                       /\ Has(f, "STAGE_ID")
                       /\ f.STAGE_ID = financialStatusToStageId("refunded", category)
                  ELSE IF refundAmount > 0
                  THEN /\ Has(f, "UF_CRM_1739183959976")
                       /\ f.UF_CRM_1739183959976 = UNPAID
                       /\ ~ Has(f, "STAGE_ID")
                  ELSE /\ ~ Has(f, "UF_CRM_1739183959976")
                       /\ ~ Has(f, "STAGE_ID")

C9_Witness ==
    \E r \in Slots :
        /\ Posted(r, "refunds/create")
        /\ Count(r, "crm.deal.update") = 1
        /\ Number(ev[r].body.amount) > 0
        /\ loc[r].orderTotal - Number(ev[r].body.amount) > 0

\* C10: a refunds/create event whose deal is located, whose order fetch and
\* remote calls all succeed, issues one update-deal call and leaves the deal's
\* product rows equal to the rows re-mapped from the fetched order, the empty
\* set included.
C10_RefundRowsReplaced ==
    \A r \in Slots :
        (/\ Posted(r, "refunds/create") /\ Located(r) /\ IsDone(r)
         /\ Count(r, "shopify.getOrder") = 1
         /\ \A i \in DOMAIN calls[r] : calls[r][i].out = "ok")
        => /\ Count(r, "crm.deal.update") = 1
           /\ deals[loc[r].dealId].rows = loc[r].rows

\* C11: a refunds/create event whose deal is located and whose order fetch
\* throws or returns nothing issues no update-deal and no set-product-rows call
\* and is answered with success.
C11_FetchFailureIsNoOp ==
    \A r \in Slots :
        (/\ Posted(r, "refunds/create") /\ Located(r)
         /\ \E i \in IdxOf(r, "shopify.getOrder") : calls[r][i].out # "ok")
        => /\ Count(r, "crm.deal.update") = 0
           /\ Count(r, "crm.deal.productrows.set") = 0
           /\ resp[r] = <<200>>

C11_Witness ==
    /\ \E r \in Slots :
          /\ Posted(r, "refunds/create") /\ Located(r) /\ IsDone(r)
          /\ \E i \in IdxOf(r, "shopify.getOrder") : calls[r][i].out = "nothing"
    /\ \E i \in DOMAIN deals : Len(deals[i].rows) > 0

\* C12: in an orders/create event the create-deal call is issued whatever the
\* contact upsert did; its fields are the mapped fields, plus CONTACT_ID exactly
\* when the upsert returned a contact id.
C12_ContactNeverBlocksCreate ==
    \A r \in Slots :
        Posted(r, "orders/create")
        => /\ pc[r] \in {"create_rows", "done"} => Count(r, "crm.deal.add") = 1
           /\ \A i \in IdxOf(r, "crm.deal.add") :
                 LET f == calls[r][i].fields
                     mapped == mapShopifyOrderToBitrixDeal(ev[r].body).dealFields
                     upsert == calls[r][1]
                 IN  /\ upsert.op = "contact.upsert"
                     /\ Has(f, "CONTACT_ID") <=> upsert.out \in ContactIds
                     /\ Has(f, "CONTACT_ID") => f.CONTACT_ID = upsert.out
                     /\ DOMAIN f \ {"CONTACT_ID"} = DOMAIN mapped
                     /\ \A k \in DOMAIN mapped : f[k] = mapped[k]

C12_Witness ==
    \E r \in Slots :
        /\ Posted(r, "orders/create") /\ IsDone(r)
        /\ calls[r][1].out = "throw"
        /\ \E i \in IdxOf(r, "crm.deal.add") : calls[r][i].out = "ok"

\* C13: in an orders/create event whose create-deal call returned a deal id, a
\* failing set-product-rows call leaves the response a success and the created
\* deal in the CRM.
C13_RowsFailureKeepsDeal ==
    \A r \in Slots :
        (/\ Posted(r, "orders/create")
         /\ \E i \in IdxOf(r, "crm.deal.productrows.set") : calls[r][i].out = "throw")
        => /\ resp[r] = <<200>>
           /\ loc[r].dealId \in DOMAIN deals
           /\ \A i \in IdxOf(r, "crm.deal.add") :
                 deals[loc[r].dealId].f = calls[r][i].fields

C13_Witness ==
    \E r \in Slots :
        /\ Posted(r, "orders/create") /\ IsDone(r)
        /\ \E i \in IdxOf(r, "crm.deal.productrows.set") : calls[r][i].out = "throw"
        /\ Len(deals[loc[r].dealId].rows) = 0

\* C14: an event whose topic is none of orders/create, orders/updated and
\* refunds/create, a missing topic included, issues no remote call and is
\* answered with success.
C14_UnhandledTopicIsNoOp ==
    \A r \in Slots :
        (/\ pc[r] # "idle" /\ ev[r].method = "POST"
         /\ ev[r].topic \notin {"orders/create", "orders/updated", "refunds/create"})
        => /\ calls[r] = <<>>
           /\ resp[r] = <<200>>

C14_Witness ==
    /\ \E r \in Slots : Posted(r, "missing") /\ IsDone(r)
    /\ Len(deals) > 0

\* The place of an operation in the order of one event's remote calls.
Rank(op) ==
    CASE op = "contact.upsert"           -> 0
      [] op = "crm.deal.list"            -> 1
      [] op = "shopify.getOrder"         -> 2
      [] op = "crm.deal.add"             -> 3
      [] op = "crm.deal.update"          -> 3
      [] op = "crm.deal.productrows.set" -> 4

\* C18: the remote calls of one event are issued one after the other in the
\* order locate, fetch, create or update, set rows; none of them is issued twice
\* for the event, so a failed call is not issued again.
C18_CallsInOrderOnce ==
    \A r \in Slots :
        \A i, j \in DOMAIN calls[r] :
            i < j => Rank(calls[r][i].op) < Rank(calls[r][j].op)

C18_Witness ==
    \E r \in Slots :
        /\ Posted(r, "refunds/create") /\ IsDone(r)
        /\ Len(calls[r]) = 4
        /\ calls[r][4].out = "throw"

\* The amount of an order: the current total, else the gross total, else 0.
NetAmount(order) ==
    IF order.current_total_price # Absent THEN order.current_total_price
    ELSE IF order.total_price # Absent THEN order.total_price
    ELSE 0

\* C19: when the update-deal call of an orders/updated event handled on its
\* own succeeds, the deal then has the category routed from the order's tags,
\* the order's net amount, the stage of the financial status in that category
\* and the payment code of the financial status; the fields the call does not
\* name keep their values, and the row call that follows changes no field.
C19_UpdateReachesTargets ==
    [][\A r \in Slots :
          LET order  == ev[r].body
              id     == loc[r].dealId
              routed == categoryIdFor(order.tags)
          IN  /\ (Posted(r, "orders/updated") /\ pc[r] = "upd_update"
                                              /\ pc'[r] = "upd_rows")
                 => /\ deals'[id].f.CATEGORY_ID = routed
                    /\ deals'[id].f.OPPORTUNITY = NetAmount(order)
                    /\ deals'[id].f.STAGE_ID =
                          financialStatusToStageId(order.financial_status, routed)
                    /\ deals'[id].f.UF_CRM_1739183959976 =
                          financialStatusToPaymentStatus(order.financial_status)
                    /\ DOMAIN deals'[id].f = DOMAIN deals[id].f
                    /\ \A k \in DOMAIN deals[id].f \ DOMAIN loc[r].fields :
                          deals'[id].f[k] = deals[id].f[k]
                    /\ deals'[id].rows = deals[id].rows
                    /\ \A d \in DOMAIN deals : d # id => deals'[d] = deals[d]
              /\ (Posted(r, "orders/updated") /\ pc[r] = "upd_rows" /\ pc'[r] = "done")
                 => deals'[id].f = deals[id].f]_vars

C19_Witness ==
    \E r \in Slots :
        /\ Posted(r, "orders/updated") /\ Located(r) /\ IsDone(r)
        /\ \A i \in DOMAIN calls[r] : calls[r][i].out = "ok"
        /\ ev[r].body.current_total_price = Absent
        /\ ev[r].body.total_price = Absent
        /\ \E i \in IdxOf(r, "crm.deal.update") :
              /\ Has(calls[r][i].fields, "CATEGORY_ID")
              /\ Has(calls[r][i].fields, "OPPORTUNITY")
        /\ deals[loc[r].dealId].f.OPPORTUNITY = 0

\* C15: every event received is answered exactly once: no response is written
\* twice, a handler that has finished has written one, and a handler waiting
\* for a remote call finishes, whatever the topic and the outcomes of the calls.
C15_ExactlyOneResponse ==
    /\ [](\A r \in Slots : /\ Len(resp[r]) <= 1
                           /\ IsDone(r) => Len(resp[r]) = 1)
    /\ \A r \in Slots : (pc[r] \notin {"idle", "done"}) ~> IsDone(r)

C15_Witness ==
    \E r \in Slots :
        /\ Posted(r, "refunds/create") /\ IsDone(r)
        /\ Len(calls[r]) = 4
        /\ resp[r] = <<200>>
        /\ nEvents = MaxEvents

\* Two strings that differ in the case of their letters at most.
SameIgnoringCase(a, b) ==
    /\ Len(a) = Len(b)
    /\ \A i \in 1 .. Len(a) :
          \/ a[i] = b[i]
          \/ \E k \in DOMAIN UpperChars :
                {a[i], b[i]} = {UpperChars[k], LowerChars[k]}

\* C16: tags route to the preorder category exactly when one of them equals a
\* configured preorder tag up to the case of its letters, and to the standard
\* category otherwise, whether they come as a list or as one comma-delimited
\* string; so the two forms of the same tags route alike.
C16_RoutingIgnoresCaseAndForm ==
    probe.phase = "routed"
    => /\ probe.category \in {CATEGORY_STOCK, CATEGORY_PREORDER}
       /\ probe.category = CATEGORY_PREORDER
          <=> \E i \in DOMAIN probe.tags : \E j \in DOMAIN preorderTags :
                 SameIgnoringCase(probe.tags[i], preorderTags[j])

C16_Witness ==
    /\ probe.phase = "routed"
    /\ probe.form = "string"
    /\ probe.sep = <<",", " ">>
    /\ probe.tags = <<<<"v","i","p">>, Capitalized(PreOrderTag)>>
    /\ probe.category = CATEGORY_PREORDER

\* C17: the update fields carry the discount, the tax and the shipping field
\* whenever the order has a source of the quantity: the current discounts, the
\* current tax, and for shipping any of the current shipping price set, the
\* total shipping price set and the first shipping line's price.
C17_MonetaryWheneverSourced ==
    probe.phase = "diffed"
    => LET o == probe.order IN
       /\ o.current_total_discounts # Absent
          => Has(probe.fields, "UF_SHOPIFY_TOTAL_DISCOUNT")
       /\ o.current_total_tax # Absent
          => Has(probe.fields, "UF_SHOPIFY_TOTAL_TAX")
       /\ (\/ o.current_total_shipping_price_set # Absent
           \/ o.total_shipping_price_set # Absent
           \/ o.shipping_line_price # Absent)
          => Has(probe.fields, "UF_SHOPIFY_SHIPPING_PRICE")

\* What one orders/updated event wants the deal to be.
Targets(order) ==
    [CATEGORY_ID |-> categoryIdFor(order.tags),
     OPPORTUNITY |-> NetAmount(order),
     STAGE_ID |-> financialStatusToStageId(order.financial_status,
                                           categoryIdFor(order.tags)),
     UF_CRM_1739183959976 |-> financialStatusToPaymentStatus(order.financial_status)]

\* Both slots have handled an orders/updated event of the same order, each
\* located the deal, and every remote call of both succeeded.
BothUpdated ==
    /\ \A r \in Slots :
          /\ Posted(r, "orders/updated") /\ Located(r) /\ IsDone(r)
          /\ \A i \in DOMAIN calls[r] : calls[r][i].out = "ok"
    /\ \A r, q \in Slots : /\ ev[r].body.id = ev[q].body.id
                           /\ loc[r].dealId = loc[q].dealId

SharedDeal == deals[loc[1].dealId].f

\* C20: after two concurrent orders/updated events of one order, all calls
\* succeeding, the deal's category, amount, stage and payment code together are
\* the targets of one of the two events.
C20_OneEventWins ==
    BothUpdated
    => \E r \in Slots :
          \A k \in DOMAIN Targets(ev[r].body) :
              SharedDeal[k] = Targets(ev[r].body)[k]

\* C20, amended: after two concurrent orders/updated events of one order, all
\* calls succeeding, each of the deal's category, amount, stage and payment code
\* is the target of one of the two events for that field; the four need not
\* come from the same event.
C20_EachFieldFromOneEvent ==
    BothUpdated
    => \A k \in DOMAIN Targets(ev[1].body) :
          \E r \in Slots : SharedDeal[k] = Targets(ev[r].body)[k]

C20_Witness ==
    /\ BothUpdated
    /\ \A r \in Slots :
          \E k \in DOMAIN Targets(ev[r].body) :
              SharedDeal[k] # Targets(ev[r].body)[k]

====
